---------------------------- MODULE Spec2Model ----------------------------
(***************************************************************************)
(* A model of polylang-detector: the per-pod detection coordinator and its *)
(* dual-index cache (detector/ebpf_detector.go, LanguageCache), the pod    *)
(* scan loop, the lifecycle informer and the reconciliation sweep, the     *)
(* batching upstream client (rpc/client.go, PolylangDetector.SendBatch,    *)
(* DialWithRetry) and the namespace policy.                                *)
(***************************************************************************)
EXTENDS Naturals, Integers, Sequences, FiniteSets, Bags, TLC

VARIABLES
    \* ---- the cluster (environment) ----
    runningPods,      \* pods the API server lists with status.phase=Running
    liveWorkloads,    \* workloads that exist in the cluster
    events,           \* informer delete events not yet handled
    updaterUp,        \* whether the config updater accepts connections/calls
    outages,          \* times the updater has gone down
    \* ---- LanguageCache ----
    cache,            \* image index: generateKey -> ContainerInfo
    workloadCache,    \* workload index: <<ns, name>> -> WorkloadCacheEntry
    \* ---- EBPFDetector ----
    processedPods,    \* sync.Map keyed by <<ns, podName>>
    tasks,            \* bag of in-flight detectPodLanguages goroutines
    scanPc,           \* scanPodsLoop: "initial" | "wait" | "returned"
    reconPc,          \* reconciliationLoop: "wait" | "returned"
    \* ---- PolylangDetector / upstream client ----
    ctxDone,          \* the root context has been cancelled
    pendingAtCancel,  \* items in Queue at cancellation that are still not received
    Queue,            \* chan ContainerInfo
    batch,            \* SendDataToUpdater's accumulating slice
    clientPc,         \* SendDataToUpdater: "startup" | "select" | "after" | "returned"
    flush,            \* the SendBatch call in progress (NoFlush when none)
    syncRest,         \* sendAllCachedWorkloads: containers not yet chunked
    RpcClient,        \* "nil" | "conn" | "closed"
    connBroken,       \* the connection behind RpcClient lost its peer
    rpc,              \* the remote call on the wire (NoCall when none)
    dialPc,           \* main's DialWithRetry goroutine: "sleep" | "dial" | "done"
    \* ---- namespace policy ----
    MonitoredNamespaces, IgnoredNamespaces, nsResult,
    \* ---- one inspected process and one direct call (pure functions) ----
    procCtx,          \* what the inspectors' QuickScan and DeepScan return for it
    probe,            \* the latest direct call and what it returned (NoProbe when none)
    \* ---- main (the supervisor) ----
    mainPc,           \* "go" | "wait_signal" | "cancel" | "wg_wait" | "complete"
    sigChan,          \* a signal is buffered in sigChan
    wg,               \* the counter of main's sync.WaitGroup
    taskPc,           \* per goroutine of main: "unlaunched" | "launched" | "running" | "returned"
    \* ---- history (observation only) ----
    removedByEvent,   \* workload keys a delete-event handler has removed
    sweptAfterDelete, \* workloads deleted before a sweep that has completed
    firstSeen         \* first detection result per <<pod, container>>

cacheVars   == <<cache, workloadCache>>
clusterVars == <<runningPods, liveWorkloads, events>>
updaterVars == <<updaterUp, outages>>
shutdownVars == <<ctxDone, pendingAtCancel>>
detectVars  == <<processedPods, tasks, scanPc, reconPc>>
clientVars  == <<Queue, batch, clientPc, flush, syncRest, RpcClient, connBroken, rpc, dialPc>>
nsVars      == <<MonitoredNamespaces, IgnoredNamespaces, nsResult>>
probeVars   == <<procCtx, probe>>
mainVars    == <<mainPc, sigChan, wg, taskPc>>
histVars    == <<removedByEvent, sweptAfterDelete, firstSeen>>
vars == <<runningPods, liveWorkloads, events, updaterUp, outages, cache, workloadCache,
          processedPods, tasks, scanPc, reconPc, ctxDone, pendingAtCancel, Queue, batch,
          clientPc, flush, syncRest, RpcClient, connBroken, rpc, dialPc,
          MonitoredNamespaces, IgnoredNamespaces, nsResult, procCtx, probe,
          mainPc, sigChan, wg, taskPc,
          removedByEvent, sweptAfterDelete, firstSeen>>

-----------------------------------------------------------------------------
(* Bounds of the model and program constants.                              *)

\* PolylangDetector.QueueSize (5 in NewPolylangDetector), scaled down.
QueueSize == 2
\* capacity of PolylangDetector.Queue (100 in NewPolylangDetector), scaled down.
QueueCap == 2
\* batchSize of sendAllCachedWorkloads (10 in the source), scaled down.
SyncBatchSize == 2
\* detectPodLanguages goroutines alive at once.
MaxTasks == 2
\* times the updater may go down.
MaxOutages == 1

-----------------------------------------------------------------------------
(* The cluster the detector runs against.                                   *)

NoInfo == [Language |-> "none"]

\* inspectors.DetectionResult values an orchestrator run can return
GoHigh   == [Language |-> "Go", Framework |-> "", Confidence |-> "high"]
PhpHigh  == [Language |-> "PHP", Framework |-> "Laravel", Confidence |-> "high"]
PythonHigh == [Language |-> "Python", Framework |-> "Django", Confidence |-> "high"]
UnknownLow == [Language |-> "Unknown", Framework |-> "", Confidence |-> "low"]
\* Detect returned (nil, ErrLanguageDetectionConflict)
ErrConflict == [Language |-> "error", Framework |-> "", Confidence |-> ""]

Pods == {"web-1", "db-0"}

\* a pod without a controller, created while the detector runs
StandalonePod == "batch-0"

\* corev1.Pod as the API server returns it (owner already resolved to the
\* top-level controller, see getWorkloadInfo)
PodSpec(p) ==
    IF p = "web-1"
    THEN [Name |-> "web-1", Namespace |-> "prod",
          OwnerName |-> "web", OwnerKind |-> "Deployment",
          Containers |-> << [Name |-> "app", Image |-> "api:1.2",
                             Env |-> {<<"LOG_LEVEL", "debug">>}],
                            [Name |-> "side", Image |-> "worker:3",
                             Env |-> {<<"PHP_VERSION", "8">>}] >>]
    ELSE IF p = "db-0"
    THEN [Name |-> "db-0", Namespace |-> "prod",
          OwnerName |-> "db", OwnerKind |-> "StatefulSet",
          Containers |-> << [Name |-> "app", Image |-> "api:1.2",
                             Env |-> {}] >>]
    ELSE [Name |-> "batch-0", Namespace |-> "prod",
          OwnerName |-> "Standalone Pod", OwnerKind |-> "Pod",
          Containers |-> << [Name |-> "app", Image |-> "api:1.2",
                             Env |-> {}] >>]

Workloads == { [Namespace |-> PodSpec(p).Namespace, Name |-> PodSpec(p).OwnerName,
                Kind |-> PodSpec(p).OwnerKind] : p \in Pods }

\* what the processes of a container of this image can look like when the
\* coordinator inspects them: one orchestrator outcome per PID found, in
\* enumeration order (none: no PID found, the process has not started)
ProcSnapshots(image) ==
    IF image = "api:1.2"
    THEN { <<>>, <<GoHigh>>, <<UnknownLow, GoHigh>>, <<ErrConflict>> }
    ELSE { <<>>, <<PhpHigh>>, <<PythonHigh>> }


-----------------------------------------------------------------------------
(* LanguageCache                                                            *)

criticalEnvVars == {"JAVA_VERSION", "NODE_VERSION", "PYTHON_VERSION", "GO_VERSION",
                    "RUBY_VERSION", "PHP_VERSION", "DOTNET_VERSION"}

\* sha256(image || "K=V" for each critical K present): the image and the
\* critical pairs determine the key
generateKey(image, envVars) ==
    <<image, {kv \in envVars : kv[1] \in criticalEnvVars}>>

\* Get: (info, found); NoInfo stands for not found
CacheGet(c, image, envVars) ==
    IF generateKey(image, envVars) \in DOMAIN c
    THEN c[generateKey(image, envVars)]
    ELSE NoInfo

CacheSet(c, image, envVars, info) ==
    [k \in DOMAIN c \cup {generateKey(image, envVars)} |->
        IF k = generateKey(image, envVars) THEN info ELSE c[k]]

\* key := namespace + "/" + workloadName
WorkloadKey(namespace, workloadName) == <<namespace, workloadName>>

UpdateWorkloadContainer(wc, namespace, workloadName, workloadKind, info) ==
    LET key == WorkloadKey(namespace, workloadName)
        old == IF key \in DOMAIN wc
               THEN wc[key]
               ELSE [Namespace |-> namespace, WorkloadName |-> workloadName,
                     WorkloadKind |-> workloadKind, Containers |-> <<>>]
        cs  == [n \in DOMAIN old.Containers \cup {info.ContainerName} |->
                   IF n = info.ContainerName THEN info ELSE old.Containers[n]]
    IN [k \in DOMAIN wc \cup {key} |->
           IF k = key THEN [old EXCEPT !.Containers = cs] ELSE wc[k]]

RemoveWorkload(wc, namespace, workloadName) ==
    [k \in DOMAIN wc \ {WorkloadKey(namespace, workloadName)} |-> wc[k]]

GetAllActiveWorkloads(wc) == {wc[k] : k \in DOMAIN wc}

\* the ContainerInfos of every workload entry (the slice's order is Go's map
\* iteration order: see Orderings)
GetAllActiveContainers(wc) ==
    UNION { {wc[k].Containers[n] : n \in DOMAIN wc[k].Containers} : k \in DOMAIN wc }

-----------------------------------------------------------------------------
(* The per-pod detection coordinator (EBPFDetector)                         *)

NodeJS == "nodejs"
\* the languages whose results are forwarded upstream
OtelSupportedLanguages == {"Go", NodeJS, "Python", "Java", ".NET"}

\* the owning workload of a pod: (workloadName, workloadKind)
getWorkloadInfo(pod) == <<pod.OwnerName, pod.OwnerKind>>

PodKey(pod) == <<pod.Namespace, pod.Name>>

\* for env.Value != "": containerEnvVars[env.Name] = env.Value
containerEnvVars(container) == container.Env

\* the last PID whose orchestrator result is neither an error nor Unknown
LastDetected(results) ==
    LET named == { k \in DOMAIN results :
                      results[k].Language \notin {"error", "Unknown"} }
    IN IF named = {} THEN UnknownLow
       ELSE results[CHOOSE k \in named : \A j \in named : j <= k]

\* the first PID whose orchestrator result is neither an error nor Unknown
RECURSIVE FirstDetected(_)
FirstDetected(results) ==
    IF results = <<>> THEN UnknownLow
    ELSE IF Head(results).Language \in {"error", "Unknown"}
         THEN FirstDetected(Tail(results))
         ELSE Head(results)

\* EBPFDetector.detectContainerLanguage; results are the orchestrator's
\* outcomes for the PIDs findProcessesInContainer returned
detectContainerLanguage(pod, container, results) ==
    LET r == FirstDetected(results)
        w == getWorkloadInfo(pod)
    IN [PodName |-> pod.Name, Namespace |-> pod.Namespace,
        ContainerName |-> container.Name, Image |-> container.Image,
        Language |-> r.Language, Framework |-> r.Framework,
        Confidence |-> r.Confidence,
        DeploymentName |-> w[1], Kind |-> w[2]]

\* the cache-hit branch of detectPodLanguages: a copy of the cached info
\* stamped with this pod, container and workload
StampCached(cachedInfo, pod, container) ==
    [cachedInfo EXCEPT !.PodName = pod.Name, !.Namespace = pod.Namespace,
                       !.ContainerName = container.Name,
                       !.DeploymentName = getWorkloadInfo(pod)[1],
                       !.Kind = getWorkloadInfo(pod)[2]]

\* whether detectPodLanguages stores a fresh result in both indices
ShouldCache(info) == info.Language # "Unknown"

\* whether detectPodLanguages pushes a result to the queue
ShouldPush(info) == info.Language \in OtelSupportedLanguages

Triple(info) == <<info.Language, info.Framework, info.Confidence>>

NoTask == [pod |-> "", idx |-> 0, item |-> NoInfo, rescan |-> FALSE]

TaskCount == BagCardinality(tasks)

\* the goroutine moves on to the next container, or marks the pod processed
\* and ends (processedPods.Store after the loop)
Advance(t) ==
    IF t.idx < Len(PodSpec(t.pod).Containers)
    THEN /\ tasks' = (tasks (-) SetToBag({t}))
                        (+) SetToBag({[t EXCEPT !.idx = t.idx + 1, !.item = NoInfo]})
         /\ UNCHANGED processedPods
    ELSE /\ tasks' = tasks (-) SetToBag({t})
         /\ processedPods' = processedPods \cup {PodKey(PodSpec(t.pod))}

\* the goroutine blocks on ed.queue <- info
Block(t, info) ==
    /\ tasks' = (tasks (-) SetToBag({t})) (+) SetToBag({[t EXCEPT !.item = info]})
    /\ UNCHANGED <<processedPods, Queue>>

\* ed.queue <- info when supported, then on to the next container
PushAndAdvance(t, info) ==
    IF ~ShouldPush(info)
    THEN Advance(t) /\ UNCHANGED Queue
    ELSE IF Len(Queue) < QueueCap
         THEN Advance(t) /\ Queue' = Append(Queue, info)
         ELSE Block(t, info)

\* history: the first detection of a container and, for a goroutine started
\* after the pod's processed key was cleared, the latest re-detection and
\* whether it was a cache hit
Remember(t, container, info, hit) ==
    LET k == <<t.pod, container.Name>>
    IN firstSeen' =
          IF k \notin DOMAIN firstSeen
          THEN (k :> [first |-> Triple(info), last |-> Triple(info), hit |-> hit,
                      cleared |-> FALSE, again |-> FALSE]) @@ firstSeen
          ELSE IF t.rescan
               THEN [firstSeen EXCEPT ![k] = [@ EXCEPT !.last = Triple(info),
                                                       !.hit = hit, !.again = TRUE]]
               ELSE firstSeen

\* history: the processed keys in gone were cleared
Cleared(gone) ==
    [k \in DOMAIN firstSeen |->
        IF \E p \in Pods : PodSpec(p).Name = k[1] /\ PodKey(PodSpec(p)) \in gone
        THEN [firstSeen[k] EXCEPT !.cleared = TRUE]
        ELSE firstSeen[k]]

\* one iteration of the container loop of detectPodLanguages, cache hit
DetectContainerHit(t) ==
    LET pod == PodSpec(t.pod)
        container == pod.Containers[t.idx]
        cachedInfo == CacheGet(cache, container.Image, containerEnvVars(container))
        info == StampCached(cachedInfo, pod, container)
    IN /\ t.item = NoInfo
       /\ cachedInfo # NoInfo
       /\ workloadCache' = UpdateWorkloadContainer(workloadCache, info.Namespace,
                                info.DeploymentName, info.Kind, info)
       /\ PushAndAdvance(t, info)
       /\ Remember(t, container, info, TRUE)
       /\ UNCHANGED cache

\* one iteration of the container loop of detectPodLanguages, cache miss
DetectContainerMiss(t) ==
    LET pod == PodSpec(t.pod)
        container == pod.Containers[t.idx]
    IN /\ t.item = NoInfo
       /\ CacheGet(cache, container.Image, containerEnvVars(container)) = NoInfo
       /\ \E results \in ProcSnapshots(container.Image) :
            LET info == detectContainerLanguage(pod, container, results)
            IN /\ Remember(t, container, info, FALSE)
               /\ IF ShouldCache(info)
                  THEN /\ cache' = CacheSet(cache, container.Image,
                                            containerEnvVars(container), info)
                       /\ workloadCache' = UpdateWorkloadContainer(workloadCache,
                                info.Namespace, info.DeploymentName, info.Kind, info)
                       /\ PushAndAdvance(t, info)
                  ELSE /\ Advance(t)
                       /\ UNCHANGED <<cache, workloadCache, Queue>>

\* a goroutine blocked on the full queue completes its send
QueueSend(t) ==
    /\ t.item # NoInfo
    /\ Len(Queue) < QueueCap
    /\ Queue' = Append(Queue, t.item)
    /\ Advance(t)
    /\ UNCHANGED <<cache, workloadCache, firstSeen>>

detectPodLanguages ==
    /\ \E t \in BagToSet(tasks) :
          DetectContainerHit(t) \/ DetectContainerMiss(t) \/ QueueSend(t)
    /\ UNCHANGED <<clusterVars, updaterVars, scanPc, reconPc, shutdownVars, batch, clientPc,
                   flush, syncRest, RpcClient, connBroken, rpc, dialPc, nsVars, probeVars, mainVars,
                   removedByEvent, sweptAfterDelete>>

-----------------------------------------------------------------------------
(* The pod scan loop                                                        *)

\* history: the pod was processed before and its key has been cleared
WasCleared(p) == \E k \in DOMAIN firstSeen : k[1] = p /\ firstSeen[k].cleared

\* scanAllRunningPods: list the running pods and start a detection for each
\* one whose key is not in processedPods; listOk is whether Pods("").List
\* returned without error (it cannot once ctx is cancelled)
scanAllRunningPods(listOk) ==
    LET todo == {p \in runningPods : PodKey(PodSpec(p)) \notin processedPods}
        started == SetToBag({[pod |-> p, idx |-> 1, item |-> NoInfo,
                              rescan |-> WasCleared(p)] : p \in todo})
    IN IF listOk
       THEN /\ TaskCount + Cardinality(todo) <= MaxTasks
            /\ tasks' = tasks (+) started
       ELSE UNCHANGED tasks

\* scanPodsLoop: the initial scan
ScanInitial ==
    /\ scanPc = "initial"
    /\ \E listOk \in BOOLEAN :
          /\ ctxDone => ~listOk
          /\ scanAllRunningPods(listOk)
    /\ scanPc' = "wait"
    /\ UNCHANGED <<clusterVars, updaterVars, cacheVars, processedPods, reconPc, shutdownVars,
                   clientVars, nsVars, probeVars, mainVars, histVars>>

\* scanPodsLoop: case <-ticker.C
ScanTick ==
    /\ scanPc = "wait"
    /\ \E listOk \in BOOLEAN :
          /\ ctxDone => ~listOk
          /\ scanAllRunningPods(listOk)
    /\ UNCHANGED <<clusterVars, updaterVars, cacheVars, processedPods, scanPc, reconPc,
                   shutdownVars, clientVars, nsVars, probeVars, mainVars, histVars>>

\* scanPodsLoop: case <-ctx.Done()
ScanReturn ==
    /\ scanPc = "wait"
    /\ ctxDone
    /\ scanPc' = "returned"
    /\ UNCHANGED <<clusterVars, updaterVars, cacheVars, processedPods, tasks, reconPc,
                   shutdownVars, clientVars, nsVars, probeVars, mainVars, histVars>>

-----------------------------------------------------------------------------
(* The lifecycle informer                                                   *)

\* the kinds setupInformers registers a DeleteFunc for
WatchedKinds == {"Pod", "Deployment", "DaemonSet", "ReplicaSet"}

\* DeleteFunc of the pod informer
PodDeleted(e) ==
    /\ e.Kind = "Pod"
    /\ processedPods' = processedPods \ {<<e.Namespace, e.Name>>}
    /\ firstSeen' = Cleared(processedPods \cap {<<e.Namespace, e.Name>>})
    /\ UNCHANGED <<workloadCache, removedByEvent>>

\* DeleteFunc of the Deployment, DaemonSet and ReplicaSet informers
WorkloadDeleted(e) ==
    /\ e.Kind \in {"Deployment", "DaemonSet", "ReplicaSet"}
    /\ workloadCache' = RemoveWorkload(workloadCache, e.Namespace, e.Name)
    /\ removedByEvent' = removedByEvent \cup {WorkloadKey(e.Namespace, e.Name)}
    /\ UNCHANGED <<processedPods, firstSeen>>

HandleEvent ==
    /\ \E e \in events :
          /\ events' = events \ {e}
          /\ PodDeleted(e) \/ WorkloadDeleted(e)
    /\ UNCHANGED <<runningPods, liveWorkloads, updaterVars, cache, tasks, scanPc, reconPc,
                   shutdownVars, clientVars, nsVars, probeVars, mainVars, sweptAfterDelete>>

-----------------------------------------------------------------------------
(* The reconciliation loop                                                  *)

\* the kinds reconcileCache has a lookup for
ReconciledKinds == {"Deployment", "DaemonSet", "ReplicaSet", "StatefulSet"}

\* exists, as reconcileCache computes it for one cached workload: the Get
\* of its kind returned no error
WorkloadExists(w, apiErr) ==
    /\ w.WorkloadKind \in ReconciledKinds
    /\ ~apiErr
    /\ [Namespace |-> w.Namespace, Name |-> w.WorkloadName, Kind |-> w.WorkloadKind]
          \in liveWorkloads

\* Pods(namespace).Get returned no error
PodExists(key, apiErr) ==
    /\ ~apiErr
    /\ \E p \in runningPods : PodKey(PodSpec(p)) = key

\* reconcileCache: failW and failP are the lookups the API server fails for
\* a reason other than not-found (all of them once ctx is cancelled)
reconcileCache(failW, failP) ==
    /\ workloadCache' =
          [k \in {k \in DOMAIN workloadCache :
                     WorkloadExists(workloadCache[k], k \in failW)} |-> workloadCache[k]]
    /\ processedPods' = {k \in processedPods : PodExists(k, k \in failP)}
    /\ firstSeen' = Cleared({k \in processedPods : ~PodExists(k, k \in failP)})
    /\ sweptAfterDelete' = sweptAfterDelete \cup (Workloads \ liveWorkloads)

\* reconciliationLoop: case <-ticker.C
ReconcileTick ==
    /\ reconPc = "wait"
    /\ \E failW \in SUBSET (DOMAIN workloadCache), failP \in SUBSET processedPods :
          /\ ctxDone => (failW = DOMAIN workloadCache /\ failP = processedPods)
          /\ reconcileCache(failW, failP)
    /\ UNCHANGED <<clusterVars, updaterVars, cache, tasks, scanPc, reconPc, shutdownVars,
                   clientVars, nsVars, probeVars, mainVars, removedByEvent>>

\* reconciliationLoop: case <-ticker.C, with an API server that answers every
\* lookup (found or not-found)
ReconcileHealthy ==
    /\ reconPc = "wait"
    /\ ~ctxDone
    /\ reconcileCache({}, {})
    /\ UNCHANGED <<clusterVars, updaterVars, cache, tasks, scanPc, reconPc, shutdownVars,
                   clientVars, nsVars, probeVars, mainVars, removedByEvent>>

\* reconciliationLoop: case <-ctx.Done()
ReconcileReturn ==
    /\ reconPc = "wait"
    /\ ctxDone
    /\ reconPc' = "returned"
    /\ UNCHANGED <<clusterVars, updaterVars, cacheVars, processedPods, tasks, scanPc,
                   shutdownVars, clientVars, nsVars, probeVars, mainVars, histVars>>

-----------------------------------------------------------------------------
(* The environment: the cluster, the updater, the interrupt signal          *)

\* a running pod is deleted; the pod informer will see it
DeletePod ==
    /\ \E p \in runningPods :
          /\ runningPods' = runningPods \ {p}
          /\ events' = events \cup {[Kind |-> "Pod", Namespace |-> PodSpec(p).Namespace,
                                     Name |-> PodSpec(p).Name]}
    /\ UNCHANGED <<liveWorkloads, updaterVars, cacheVars, detectVars, shutdownVars, clientVars,
                   nsVars, probeVars, mainVars, histVars>>

\* the standalone pod is created and runs
CreatePod ==
    /\ StandalonePod \notin runningPods
    /\ runningPods' = runningPods \cup {StandalonePod}
    /\ liveWorkloads' = liveWorkloads \cup
                           {[Namespace |-> PodSpec(StandalonePod).Namespace,
                             Name |-> PodSpec(StandalonePod).OwnerName,
                             Kind |-> PodSpec(StandalonePod).OwnerKind]}
    /\ UNCHANGED <<events, updaterVars, cacheVars, detectVars, shutdownVars, clientVars,
                   nsVars, probeVars, mainVars, histVars>>

\* a DaemonSet with the namespace and the name of web-1's Deployment
Namesake == [Namespace |-> "prod", Name |-> "web", Kind |-> "DaemonSet"]

\* the namesake DaemonSet is created
CreateWorkload ==
    /\ Namesake \notin liveWorkloads
    /\ liveWorkloads' = liveWorkloads \cup {Namesake}
    /\ UNCHANGED <<runningPods, events, updaterVars, cacheVars, detectVars, shutdownVars,
                   clientVars, nsVars, probeVars, mainVars, histVars>>

\* a workload is deleted; an informer sees it when its kind is watched
DeleteWorkload ==
    /\ \E w \in liveWorkloads :
          /\ liveWorkloads' = liveWorkloads \ {w}
          /\ events' = IF w.Kind \in WatchedKinds THEN events \cup {w} ELSE events
    /\ UNCHANGED <<runningPods, updaterVars, cacheVars, detectVars, shutdownVars, clientVars,
                   nsVars, probeVars, mainVars, histVars>>

\* main: sig := <-sigChan; cancel()
Cancel ==
    /\ ~ctxDone
    /\ ctxDone' = TRUE
    /\ pendingAtCancel' = Len(Queue)
    /\ UNCHANGED <<clusterVars, updaterVars, cacheVars, detectVars, clientVars, nsVars, probeVars, mainVars,
                   histVars>>

-----------------------------------------------------------------------------
(* The upstream client: PolylangDetector.SendBatch and DialWithRetry        *)

NoFlush == [items |-> <<>>, reason |-> "", pc |-> "", attempt |-> 0,
            sawDown |-> FALSE, result |-> ""]
NoCall == [items |-> <<>>, reason |-> "", ok |-> FALSE, none |-> TRUE]

Min(a, b) == IF a < b THEN a ELSE b

\* a Call that passes batch[1:]
PayloadOffByOne(b) == Tail(b)

\* a Call that passes the batch in reverse order
PayloadReversed(b) == [i \in 1..Len(b) |-> b[Len(b) + 1 - i]]

\* the argument of RpcClient.Call("RPCHandler.PushDetectionResults", batch, &reply)
CallPayload(b) == b

\* if len(batch) == 0 { return }
SendBatchRuns(b) == Len(b) # 0

\* SendBatch is entered with b; the caller resumes at clientPc = "after"
SendBatch(b, reason) ==
    /\ clientPc' = "after"
    /\ flush' = IF SendBatchRuns(b)
                THEN [items |-> b, reason |-> reason,
                      pc |-> IF RpcClient = "nil" THEN "sleep" ELSE "call",
                      attempt |-> 1, sawDown |-> ~updaterUp, result |-> ""]
                ELSE [items |-> b, reason |-> reason, pc |-> "done", attempt |-> 0,
                      sawDown |-> FALSE, result |-> "skipped"]

InSendBatch == clientPc = "after" /\ flush.pc # "done"

\* DialWithRetry(context.TODO(), 10s) inside SendBatch: time.Sleep is over
FlushDialWake ==
    /\ InSendBatch /\ flush.pc = "sleep"
    /\ flush' = [flush EXCEPT !.pc = "dial"]
    /\ UNCHANGED <<RpcClient, connBroken, rpc>>

\* whether DialWithRetry takes its case <-ctx.Done(): SendBatch passes
\* context.TODO(), which is never done
FlushDialCancelled == FALSE

\* DialWithRetry inside SendBatch: one pass of the loop
FlushDial ==
    /\ InSendBatch /\ flush.pc = "dial"
    /\ IF FlushDialCancelled
       THEN /\ flush' = [flush EXCEPT !.pc = "done", !.result = "failed"]
            /\ UNCHANGED <<RpcClient, connBroken>>
       ELSE IF updaterUp
            THEN /\ RpcClient' = "conn"
                 /\ connBroken' = FALSE
                 /\ flush' = [flush EXCEPT !.pc = "call"]
            ELSE /\ flush' = [flush EXCEPT !.pc = "sleep"]
                 /\ UNCHANGED <<RpcClient, connBroken>>
    /\ UNCHANGED rpc

\* whether a call on the current handle reaches the updater
CallSucceeds == RpcClient = "conn" /\ ~connBroken /\ updaterUp

\* pd.RpcClient.Call(...): the request goes out
FlushCall ==
    /\ InSendBatch /\ flush.pc = "call"
    /\ rpc' = [items |-> CallPayload(flush.items), reason |-> flush.reason,
               ok |-> CallSucceeds, none |-> FALSE]
    /\ flush' = [flush EXCEPT !.pc = "reply"]
    /\ UNCHANGED <<RpcClient, connBroken>>

\* a SendBatch that reconnects and calls again after every failed Call
AlwaysRetry(attempt) == TRUE

\* a SendBatch that gives the batch up at the first failed Call
NeverRetry(attempt) == FALSE

\* the first failed Call is retried after a reconnect, the second is not
ShouldRetry(attempt) == attempt = 1

\* the call returned: done on success; after the first failure mark the
\* handle nil and reconnect; after the second give the batch up
FlushReply ==
    /\ InSendBatch /\ flush.pc = "reply"
    /\ rpc' = NoCall
    /\ IF rpc.ok
       THEN /\ flush' = [flush EXCEPT !.pc = "done", !.result = "sent"]
            /\ UNCHANGED <<RpcClient, connBroken>>
       ELSE IF ShouldRetry(flush.attempt)
            THEN /\ RpcClient' = "nil"
                 /\ connBroken' = FALSE
                 /\ flush' = [flush EXCEPT !.pc = "sleep", !.attempt = @ + 1]
            ELSE /\ flush' = [flush EXCEPT !.pc = "done", !.result = "failed"]
                 /\ UNCHANGED <<RpcClient, connBroken>>

SendBatchStep ==
    /\ FlushDialWake \/ FlushDial \/ FlushCall \/ FlushReply
    /\ UNCHANGED <<clusterVars, updaterVars, cacheVars, detectVars, shutdownVars, Queue, batch,
                   clientPc, syncRest, dialPc, nsVars, probeVars, mainVars, histVars>>

-----------------------------------------------------------------------------
(* The upstream client: SendDataToUpdater                                   *)

\* the orders in which Go may range over the workload maps
Orderings(S) ==
    {f \in [1..Cardinality(S) -> S] : \A i, j \in 1..Cardinality(S) : f[i] = f[j] => i = j}

\* one pass of the chunk loop of sendAllCachedWorkloads over what is left
SendChunk(rest) ==
    LET end == Min(SyncBatchSize, Len(rest))
    IN /\ SendBatch(SubSeq(rest, 1, end), "cached_workloads_sync")
       /\ syncRest' = SubSeq(rest, end + 1, Len(rest))

\* sendAllCachedWorkloads up to its first SendBatch
sendAllCachedWorkloads ==
    \E all \in Orderings(GetAllActiveContainers(workloadCache)) :
        IF Len(all) = 0
        THEN /\ clientPc' = "select"
             /\ UNCHANGED <<flush, syncRest>>
        ELSE SendChunk(all)

\* time.Sleep(10s); sendAllCachedWorkloads(pd)
ClientStartup ==
    /\ clientPc = "startup"
    /\ sendAllCachedWorkloads
    /\ UNCHANGED <<Queue, batch, RpcClient, connBroken, rpc>>

\* a threshold test written with > in place of >=
ThresholdExceeded(currentSize) == currentSize > QueueSize

\* if currentSize >= pd.QueueSize
ThresholdReached(currentSize) == currentSize >= QueueSize

\* case result := <-pd.Queue
RecvItem ==
    /\ clientPc = "select"
    /\ Queue # <<>>
    /\ Queue' = Tail(Queue)
    /\ batch' = Append(batch, Head(Queue))
    /\ pendingAtCancel' = IF pendingAtCancel > 0 THEN pendingAtCancel - 1 ELSE 0
    /\ IF ThresholdReached(Len(batch'))
       THEN SendBatch(batch', "queue_size_threshold_reached")
       ELSE UNCHANGED <<clientPc, flush>>
    /\ UNCHANGED <<syncRest, RpcClient, connBroken, rpc>>

\* pd.RpcClient.Close() when the handle is not nil
CloseHandle == IF RpcClient # "nil" THEN "closed" ELSE "nil"

\* case <-ctx.Done()
OnCtxDone ==
    /\ clientPc = "select"
    /\ ctxDone
    /\ IF Len(batch) > 0
       THEN /\ SendBatch(batch, "application_shutdown")
            /\ UNCHANGED RpcClient
       ELSE /\ RpcClient' = CloseHandle
            /\ clientPc' = "returned"
            /\ UNCHANGED flush
    /\ UNCHANGED <<Queue, batch, syncRest, connBroken, rpc>>

\* case <-ticker.C
OnTick ==
    /\ clientPc = "select"
    /\ IF Len(batch) > 0
       THEN SendBatch(batch, "periodic_flush_interval")
       ELSE UNCHANGED <<clientPc, flush>>
    /\ UNCHANGED <<Queue, batch, syncRest, RpcClient, connBroken, rpc>>

\* case <-cacheSyncTicker.C
OnCacheSyncTick ==
    /\ clientPc = "select"
    /\ sendAllCachedWorkloads
    /\ UNCHANGED <<Queue, batch, RpcClient, connBroken, rpc>>

\* SendBatch has returned; the caller goes on
AfterSendBatch ==
    /\ clientPc = "after"
    /\ flush.pc = "done"
    /\ IF flush.reason = "cached_workloads_sync"
       THEN /\ IF syncRest # <<>>
               THEN SendChunk(syncRest)
               ELSE /\ clientPc' = "select"
                    /\ flush' = NoFlush
                    /\ UNCHANGED syncRest
            /\ UNCHANGED <<batch, RpcClient>>
       ELSE IF flush.reason = "application_shutdown"
            THEN /\ RpcClient' = CloseHandle
                 /\ clientPc' = "returned"
                 /\ flush' = NoFlush
                 /\ UNCHANGED <<batch, syncRest>>
            ELSE /\ batch' = <<>>
                 /\ clientPc' = "select"
                 /\ flush' = NoFlush
                 /\ UNCHANGED <<syncRest, RpcClient>>
    /\ UNCHANGED <<Queue, connBroken, rpc>>

\* pd.BatchMutex is locked: only SendDataToUpdater locks it, around the append
\* of the queue branch (within RecvItem) and around the whole of the ticker
\* and ctx.Done() branches, SendBatch included
BatchMutexHeld ==
    /\ clientPc = "after"
    /\ flush.reason \in {"periodic_flush_interval", "application_shutdown"}

SendDataToUpdater ==
    /\ \/ RecvItem
       \/ /\ ClientStartup \/ OnCtxDone \/ OnTick \/ OnCacheSyncTick \/ AfterSendBatch
          /\ UNCHANGED pendingAtCancel
    /\ UNCHANGED <<clusterVars, updaterVars, cacheVars, detectVars, ctxDone, dialPc,
                   nsVars, probeVars, mainVars, histVars>>

-----------------------------------------------------------------------------
(* main's connection goroutine: DialWithRetry(ctx, 10s)                     *)

\* time.Sleep is over
MainDialWake ==
    /\ dialPc = "sleep"
    /\ dialPc' = "dial"
    /\ UNCHANGED <<RpcClient, connBroken>>

\* one pass of the loop: case <-ctx.Done(), else dial
MainDial ==
    /\ dialPc = "dial"
    /\ IF ctxDone
       THEN /\ dialPc' = "done"
            /\ UNCHANGED <<RpcClient, connBroken>>
       ELSE IF updaterUp
            THEN /\ RpcClient' = "conn"
                 /\ connBroken' = FALSE
                 /\ dialPc' = "done"
            ELSE /\ dialPc' = "sleep"
                 /\ UNCHANGED <<RpcClient, connBroken>>

DialWithRetry ==
    /\ MainDialWake \/ MainDial
    /\ UNCHANGED <<clusterVars, updaterVars, cacheVars, detectVars, shutdownVars, Queue, batch,
                   clientPc, flush, syncRest, rpc, nsVars, probeVars, mainVars, histVars>>

-----------------------------------------------------------------------------
(* The updater                                                              *)

UpdaterDown ==
    /\ updaterUp
    /\ outages < MaxOutages
    /\ updaterUp' = FALSE
    /\ outages' = outages + 1
    /\ connBroken' = (connBroken \/ RpcClient = "conn")
    /\ flush' = IF InSendBatch THEN [flush EXCEPT !.sawDown = TRUE] ELSE flush
    /\ UNCHANGED <<clusterVars, cacheVars, detectVars, shutdownVars, Queue, batch, clientPc,
                   syncRest, RpcClient, rpc, dialPc, nsVars, probeVars, mainVars, histVars>>

\* the updater is replaced by a new instance: it accepts connections, the
\* established one is gone
UpdaterRestart ==
    /\ updaterUp
    /\ RpcClient = "conn" /\ ~connBroken
    /\ connBroken' = TRUE
    /\ flush' = IF InSendBatch THEN [flush EXCEPT !.sawDown = TRUE] ELSE flush
    /\ UNCHANGED <<clusterVars, updaterVars, cacheVars, detectVars, shutdownVars, Queue,
                   batch, clientPc, syncRest, RpcClient, rpc, dialPc, nsVars, probeVars,
                   mainVars, histVars>>

UpdaterUp ==
    /\ ~updaterUp
    /\ updaterUp' = TRUE
    /\ UNCHANGED <<clusterVars, outages, cacheVars, detectVars, shutdownVars, clientVars,
                   nsVars, probeVars, mainVars, histVars>>

-----------------------------------------------------------------------------
(* Namespace policy                                                         *)

\* longest namespace list tried
MaxNsLen == 2

Namespaces == {"default", "kube-system", "prod"}

\* the lists KM_K8S_MONITORED_NAMESPACES / KM_IGNORED_NS can hold
NsLists == UNION { [1..n -> Namespaces] : n \in 0..MaxNsLen }

NoQuery == [namespace |-> "", result |-> TRUE, asked |-> FALSE]

\* for _, ns := range list { if ns == namespace { return ... } }
RECURSIVE Contains(_, _)
Contains(list, namespace) ==
    IF list = <<>> THEN FALSE
    ELSE IF Head(list) = namespace THEN TRUE
    ELSE Contains(Tail(list), namespace)

\* a version without the return false after the monitored loop
MonitoredFallsThrough(monitored, ignored, namespace) ==
    IF Len(monitored) > 0 /\ Contains(monitored, namespace)
    THEN TRUE
    ELSE IF Len(ignored) > 0 /\ Contains(ignored, namespace)
         THEN FALSE
         ELSE TRUE

ShouldMonitorNamespace(monitored, ignored, namespace) ==
    IF Len(monitored) > 0
    THEN IF Contains(monitored, namespace) THEN TRUE ELSE FALSE
    ELSE IF Len(ignored) > 0 /\ Contains(ignored, namespace)
         THEN FALSE
         ELSE TRUE

\* a caller asks pd.ShouldMonitorNamespace(namespace)
ShouldMonitorCall ==
    /\ \E namespace \in Namespaces :
          nsResult' = [namespace |-> namespace, asked |-> TRUE,
                       result |-> ShouldMonitorNamespace(MonitoredNamespaces,
                                                         IgnoredNamespaces, namespace)]
    /\ UNCHANGED <<clusterVars, updaterVars, cacheVars, detectVars, shutdownVars,
                   clientVars, MonitoredNamespaces, IgnoredNamespaces, probeVars, mainVars,
                   histVars>>

-----------------------------------------------------------------------------
(* The detection orchestrator (inspectors.LanguageDetector)                 *)

\* results the inspectors return for one process over both stages
MaxResults == 2
\* PIDs found for one container in a direct call
MaxPids == 2

\* inspectors.DetectionResult values the inspectors' scans return
GoQuick    == [Language |-> "Go", Framework |-> "", Version |-> "1.21",
               Confidence |-> "high"]
GoEnv      == [Language |-> "Go", Framework |-> "", Version |-> "",
               Confidence |-> "medium"]
JavaSpring == [Language |-> "Java", Framework |-> "Spring Boot", Version |-> "17",
               Confidence |-> "high"]
JavaTomcat == [Language |-> "Java", Framework |-> "Tomcat", Version |-> "",
               Confidence |-> "medium"]
JavaPlain  == [Language |-> "Java", Framework |-> "", Version |-> "",
               Confidence |-> "medium"]
JavaVersioned == [Language |-> "Java", Framework |-> "", Version |-> "11.0",
                  Confidence |-> "medium"]
InspectorResults == {GoQuick, GoEnv, JavaSpring, JavaTomcat, JavaPlain, JavaVersioned}

\* the non-nil results of one stage, in inspector order
ResultLists == UNION { [1..n -> InspectorResults] : n \in 0..MaxResults }

\* a process for which every scan returns nil
IdleProcess == [quick |-> <<>>, deep |-> <<>>]

NoProbe == [op |-> "none", pod |-> "", ids |-> <<>>, results |-> <<>>, missed |-> {},
            out |-> <<>>]

\* Detect returned (nil, &ErrLanguageDetectionConflict{...})
ErrLanguageDetectionConflict ==
    [Language |-> "error", Framework |-> "", Version |-> "", Confidence |-> ""]

\* a no-language record whose Confidence was left at its zero value
NoLanguageNoConfidence ==
    [Language |-> "Unknown", Framework |-> "", Version |-> "", Confidence |-> ""]

\* the record Detect builds when neither stage found a language
NoLanguageDetected ==
    [Language |-> "Unknown", Framework |-> "", Version |-> "", Confidence |-> "low"]

allSame(results) ==
    \A i \in DOMAIN results : results[i].Language = results[1].Language

\* one iteration of selectBestResult's loop
Prefer(best, result) ==
    IF result.Confidence = "high" /\ best.Confidence # "high"
    THEN result
    ELSE IF /\ result.Confidence = best.Confidence
            /\ result.Framework # "" /\ best.Framework = ""
         THEN result
         ELSE IF /\ result.Confidence = best.Confidence
                 /\ result.Version # "" /\ best.Version = ""
              THEN result
              ELSE best

RECURSIVE SelectFrom(_, _)
SelectFrom(best, rest) ==
    IF rest = <<>> THEN best ELSE SelectFrom(Prefer(best, Head(rest)), Tail(rest))

\* results is never empty where Detect calls it
selectBestResult(results) == SelectFrom(Head(results), Tail(results))

\* several results of one stage: the best of one language, or a conflict
Resolve(results) ==
    IF allSame(results) THEN selectBestResult(results)
    ELSE ErrLanguageDetectionConflict

\* LanguageDetector.Detect; quickResults and deepResults are what the
\* inspectors' QuickScan and DeepScan return for the process
Detect(quickResults, deepResults) ==
    IF Len(quickResults) = 1 /\ quickResults[1].Confidence = "high"
    THEN quickResults[1]
    ELSE IF Len(quickResults) > 1
         THEN Resolve(quickResults)
         ELSE IF Len(deepResults) = 1
              THEN deepResults[1]
              ELSE IF Len(deepResults) > 1
                   THEN Resolve(deepResults)
                   ELSE NoLanguageDetected

\* the orchestrator's outcome for each of n PIDs running the inspected process
PidResults(n) == [k \in 1..n |-> Detect(procCtx.quick, procCtx.deep)]

\* a direct call of LanguageDetector.Detect
DetectCall ==
    /\ probe' = [NoProbe EXCEPT !.op = "Detect",
                                !.out = <<Detect(procCtx.quick, procCtx.deep)>>]
    /\ UNCHANGED <<clusterVars, updaterVars, cacheVars, detectVars, shutdownVars,
                   clientVars, nsVars, procCtx, mainVars, histVars>>

\* a direct call of EBPFDetector.detectContainerLanguage (the cache-miss branch)
DetectContainerCall ==
    /\ \E p \in Pods, n \in 0..MaxPids :
         \E i \in 1..Len(PodSpec(p).Containers) :
            probe' = [NoProbe EXCEPT
                         !.op = "detectContainerLanguage", !.pod = p,
                         !.out = <<detectContainerLanguage(PodSpec(p),
                                      PodSpec(p).Containers[i], PidResults(n))>>]
    /\ UNCHANGED <<clusterVars, updaterVars, cacheVars, detectVars, shutdownVars,
                   clientVars, nsVars, procCtx, mainVars, histVars>>

\* the cache-hit branch of detectPodLanguages for one container
CacheHitCall ==
    /\ \E p \in Pods :
         \E i \in 1..Len(PodSpec(p).Containers) :
            LET container == PodSpec(p).Containers[i]
                cachedInfo == CacheGet(cache, container.Image,
                                       containerEnvVars(container))
            IN /\ cachedInfo # NoInfo
               /\ probe' = [NoProbe EXCEPT
                              !.op = "hit", !.pod = p,
                              !.out = <<StampCached(cachedInfo, PodSpec(p), container)>>]
    /\ UNCHANGED <<clusterVars, updaterVars, cacheVars, detectVars, shutdownVars,
                   clientVars, nsVars, procCtx, mainVars, histVars>>

\* what the orchestrator returns for one PID with the registered inspectors:
\* there is one inspector per language, so the results of a stage name
\* different languages, and every DeepScan result has high confidence
PidOutcomes ==
    LET OnePerLanguage(rs) ==
            \A i, j \in DOMAIN rs : rs[i].Language = rs[j].Language => i = j
    IN { Detect(pc.quick, pc.deep) :
           pc \in { c \in [quick : ResultLists, deep : ResultLists] :
                      /\ Len(c.quick) + Len(c.deep) <= MaxResults
                      /\ OnePerLanguage(c.quick)
                      /\ OnePerLanguage(c.deep)
                      /\ \A i \in DOMAIN c.deep : c.deep[i].Confidence = "high" } }

\* a direct call of EBPFDetector.detectContainerLanguage for a container whose
\* PIDs, in enumeration order, have the orchestrator outcomes results
DetectContainerPidsCall ==
    /\ \E p \in Pods, n \in 0..MaxPids :
         \E i \in 1..Len(PodSpec(p).Containers), results \in [1..n -> PidOutcomes] :
            probe' = [NoProbe EXCEPT
                         !.op = "detectContainerLanguage(pids)", !.pod = p,
                         !.results = results,
                         !.out = <<detectContainerLanguage(PodSpec(p),
                                      PodSpec(p).Containers[i], results)>>]
    /\ UNCHANGED <<clusterVars, updaterVars, cacheVars, detectVars, shutdownVars,
                   clientVars, nsVars, procCtx, mainVars, histVars>>

-----------------------------------------------------------------------------
(* The /proc coordinator (ProcBasedDetector)                                *)

\* the container ID the pod status yields for a container: "" when no status
\* matches, the ContainerID is empty or it has no "://"
ContainerIDs == {"", "abc123"}

\* detectContainerLanguage returned (nil, err)
ErrDetection == [Language |-> "error"]

\* finds the name of the top-level controller of the pod
getPodDeploymentName(pod) ==
    IF pod.OwnerKind = "Pod" THEN "Standalone Pod" ELSE pod.OwnerName

\* metav1.GetControllerOf(pod).Kind, "Pod" without an owner: the pods of a
\* Deployment are controlled by its ReplicaSet
ownerKind(pod) ==
    IF pod.OwnerKind = "Deployment" THEN "ReplicaSet" ELSE pod.OwnerKind

\* the results appended to detections
Detections(results) ==
    SelectSeq(results, LAMBDA r : r.Language \notin {"error", "Unknown"})

\* the first high-confidence detection, or the first one
RECURSIVE BestDetection(_, _)
BestDetection(first, rest) ==
    IF rest = <<>> THEN first
    ELSE IF Head(rest).Confidence = "high" THEN Head(rest)
         ELSE BestDetection(first, Tail(rest))

\* ProcBasedDetector.detectContainerLanguage; results are the orchestrator's
\* outcomes for the PIDs of the container
ProcDetectContainer(pod, container, containerID, results) ==
    LET info == [PodName |-> pod.Name, Namespace |-> pod.Namespace,
                 ContainerName |-> container.Name, Image |-> container.Image,
                 Language |-> "Unknown", Framework |-> "", Confidence |-> "low",
                 DeploymentName |-> "", Kind |-> ""]
        detections == Detections(results)
        best == BestDetection(Head(detections), detections)
    IN IF containerID = ""
       THEN ErrDetection
       ELSE IF Len(results) = 0
            THEN ErrDetection
            ELSE IF detections = <<>>
                 THEN info
                 ELSE [info EXCEPT !.Language = best.Language,
                                   !.Framework = best.Framework,
                                   !.Confidence = best.Confidence]

\* the container loop of DetectLanguageForPod from container i on; acc holds
\* the results so far, the image index and the containers that missed it.
\* Get hands out a pointer to the stored ContainerInfo, so the stamping of a
\* hit is done on the image-index entry itself.
RECURSIVE ForEachContainer(_, _, _, _, _)
ForEachContainer(acc, pod, i, ids, results) ==
    IF i > Len(pod.Containers) THEN acc
    ELSE LET container == pod.Containers[i]
             envVars == containerEnvVars(container)
             cachedInfo == CacheGet(acc.cache, container.Image, envVars)
             stamped == [cachedInfo EXCEPT !.PodName = pod.Name,
                                           !.Namespace = pod.Namespace,
                                           !.ContainerName = container.Name,
                                           !.DeploymentName = getPodDeploymentName(pod)]
             detected == ProcDetectContainer(pod, container, ids[i], results)
             containerInfo == [detected EXCEPT
                                  !.DeploymentName = getPodDeploymentName(pod),
                                  !.Kind = ownerKind(pod)]
         IN IF cachedInfo # NoInfo
            THEN ForEachContainer(
                    [acc EXCEPT !.out = Append(@, stamped),
                                !.cache = CacheSet(@, container.Image, envVars, stamped)],
                    pod, i + 1, ids, results)
            ELSE IF detected = ErrDetection
                 THEN ForEachContainer([acc EXCEPT !.missed = @ \cup {i}],
                                       pod, i + 1, ids, results)
                 ELSE ForEachContainer(
                         [acc EXCEPT !.missed = @ \cup {i},
                                     !.out = Append(@, containerInfo),
                                     !.cache = CacheSet(@, container.Image, envVars,
                                                        containerInfo)],
                         pod, i + 1, ids, results)

\* ProcBasedDetector.DetectLanguageForPod for a running pod the API server
\* returns
DetectLanguageForPod(c, pod, ids, results) ==
    ForEachContainer([out |-> <<>>, cache |-> c, missed |-> {}], pod, 1, ids, results)

\* a direct call of PolylangDetector.DetectLanguageWithProcInspection
DetectLanguageForPodCall ==
    /\ \E p \in Pods, n \in 0..MaxPids :
         \E ids \in [1..Len(PodSpec(p).Containers) -> ContainerIDs] :
            LET r == DetectLanguageForPod(cache, PodSpec(p), ids, PidResults(n))
            IN /\ probe' = [op |-> "DetectLanguageForPod", pod |-> p, ids |-> ids,
                            results |-> <<>>, missed |-> r.missed, out |-> r.out]
               /\ cache' = r.cache
    /\ UNCHANGED <<clusterVars, updaterVars, workloadCache, detectVars, shutdownVars,
                   clientVars, nsVars, procCtx, mainVars, histVars>>

-----------------------------------------------------------------------------
(* main: the supervisor                                                     *)

\* the goroutines main starts, in the order of its go statements
LaunchOrder == <<"DialWithRetry", "ScanPods", "AnalyzeWorkloads", "SendDataToUpdater">>

Tasks == {LaunchOrder[i] : i \in DOMAIN LaunchOrder}

\* the goroutines whose body begins with wg.Add(1); defer wg.Done(); they are
\* also the ones that return only once the context is cancelled
Counted == {"AnalyzeWorkloads", "SendDataToUpdater"}

\* main executes its next go statement
MainGo ==
    /\ mainPc = "go"
    /\ \E i \in DOMAIN LaunchOrder :
          /\ taskPc[LaunchOrder[i]] = "unlaunched"
          /\ \A j \in 1..(i - 1) : taskPc[LaunchOrder[j]] # "unlaunched"
          /\ taskPc' = [taskPc EXCEPT ![LaunchOrder[i]] = "launched"]
          /\ mainPc' = IF i = Len(LaunchOrder) THEN "wait_signal" ELSE "go"
    /\ UNCHANGED <<clusterVars, updaterVars, cacheVars, detectVars, shutdownVars,
                   clientVars, nsVars, probeVars, sigChan, wg, histVars>>

\* SIGINT or SIGTERM is delivered to the process
Interrupt ==
    /\ mainPc # "complete"
    /\ ~sigChan
    /\ sigChan' = TRUE
    /\ UNCHANGED <<clusterVars, updaterVars, cacheVars, detectVars, shutdownVars,
                   clientVars, nsVars, probeVars, mainPc, wg, taskPc, histVars>>

\* sig := <-sigChan
MainSignal ==
    /\ mainPc = "wait_signal"
    /\ sigChan
    /\ sigChan' = FALSE
    /\ mainPc' = "cancel"
    /\ UNCHANGED <<clusterVars, updaterVars, cacheVars, detectVars, shutdownVars,
                   clientVars, nsVars, probeVars, wg, taskPc, histVars>>

\* cancel()
MainCancel ==
    /\ mainPc = "cancel"
    /\ ctxDone' = TRUE
    /\ pendingAtCancel' = Len(Queue)
    /\ mainPc' = "wg_wait"
    /\ UNCHANGED <<clusterVars, updaterVars, cacheVars, detectVars,
                   clientVars, nsVars, probeVars, sigChan, wg, taskPc, histVars>>

\* wg.Wait() returns and main logs ApplicationShutdownComplete and returns,
\* which ends the process
MainWait ==
    /\ mainPc = "wg_wait"
    /\ wg = 0
    /\ mainPc' = "complete"
    /\ UNCHANGED <<clusterVars, updaterVars, cacheVars, detectVars, shutdownVars,
                   clientVars, nsVars, probeVars, sigChan, wg, taskPc, histVars>>

\* a started goroutine begins its body: wg.Add(1) where it has one
TaskStart(t) ==
    /\ mainPc # "complete"
    /\ taskPc[t] = "launched"
    /\ taskPc' = [taskPc EXCEPT ![t] = "running"]
    /\ wg' = IF t \in Counted THEN wg + 1 ELSE wg
    /\ UNCHANGED <<clusterVars, updaterVars, cacheVars, detectVars, shutdownVars,
                   clientVars, nsVars, probeVars, mainPc, sigChan, histVars>>

\* a goroutine returns: the deferred wg.Done() where it has one
TaskReturn(t) ==
    /\ mainPc # "complete"
    /\ taskPc[t] = "running"
    /\ t \in Counted => ctxDone
    /\ taskPc' = [taskPc EXCEPT ![t] = "returned"]
    /\ wg' = IF t \in Counted THEN wg - 1 ELSE wg
    /\ UNCHANGED <<clusterVars, updaterVars, cacheVars, detectVars, shutdownVars,
                   clientVars, nsVars, probeVars, mainPc, sigChan, histVars>>

-----------------------------------------------------------------------------
(* The system                                                               *)

\* the state after construction, the namespace lists apart
InitDetector ==
    /\ runningPods = Pods
    /\ liveWorkloads = Workloads
    /\ events = {}
    /\ updaterUp \in BOOLEAN
    /\ outages = 0
    /\ cache = <<>>
    /\ workloadCache = <<>>
    /\ processedPods = {}
    /\ tasks = EmptyBag
    /\ scanPc = "initial"
    /\ reconPc = "wait"
    /\ ctxDone = FALSE
    /\ pendingAtCancel = 0
    /\ Queue = <<>>
    /\ batch = <<>>
    /\ clientPc = "startup"
    /\ flush = NoFlush
    /\ syncRest = <<>>
    /\ RpcClient = "nil"
    /\ connBroken = FALSE
    /\ rpc = NoCall
    /\ dialPc = "sleep"
    /\ nsResult = NoQuery
    /\ probe = NoProbe
    /\ mainPc = "go"
    /\ sigChan = FALSE
    /\ wg = 0
    /\ taskPc = [t \in Tasks |-> "unlaunched"]
    /\ removedByEvent = {}
    /\ sweptAfterDelete = {}
    /\ firstSeen = <<>>

\* KM_K8S_MONITORED_NAMESPACES and KM_IGNORED_NS are not set
Init ==
    /\ InitDetector
    /\ MonitoredNamespaces = <<>>
    /\ IgnoredNamespaces = <<>>
    /\ procCtx = IdleProcess

Next ==
    \/ ScanInitial \/ ScanTick \/ ScanReturn
    \/ detectPodLanguages
    \/ HandleEvent
    \/ ReconcileTick \/ ReconcileReturn
    \/ SendDataToUpdater
    \/ SendBatchStep
    \/ DialWithRetry
    \/ DeletePod \/ DeleteWorkload \/ Cancel
    \/ UpdaterDown \/ UpdaterUp \/ UpdaterRestart
    \/ CreatePod \/ CreateWorkload \/ ReconcileHealthy
    \/ ShouldMonitorCall
    \/ DetectCall \/ DetectContainerCall \/ CacheHitCall \/ DetectLanguageForPodCall
    \/ DetectContainerPidsCall
    \/ MainGo \/ Interrupt \/ MainSignal \/ MainCancel \/ MainWait
    \/ \E t \in Tasks : TaskStart(t) \/ TaskReturn(t)

Spec == Init /\ [][Next]_vars


\* the detector from start to shutdown against a cluster that does not change
NextDelivery ==
    \/ ScanInitial
    \/ detectPodLanguages
    \/ SendDataToUpdater
    \/ SendBatchStep
    \/ DialWithRetry
    \/ Cancel
    \/ UpdaterDown \/ UpdaterUp

SpecDelivery == Init /\ [][NextDelivery]_vars

-----------------------------------------------------------------------------
(* Shutdown                                                                 *)

\* C1: when the upstream client has returned after cancellation, no item
\* that was in Queue at cancellation is still unreceived (every one of
\* them went into the batch and so into the shutdown flush).
C1_QueueDrainedAtReturn == clientPc = "returned" => pendingAtCancel = 0

\* the detector from start to shutdown with all three loops, up to the
\* first tick of the scan and reconciliation tickers, against an updater
\* that stays as it was at start
NextShutdown ==
    \/ ScanInitial \/ ScanReturn
    \/ detectPodLanguages
    \/ ReconcileReturn
    \/ SendDataToUpdater
    \/ SendBatchStep
    \/ DialWithRetry
    \/ Cancel

\* Scheduling: a goroutine that can take a step eventually takes one, and a
\* select that finds its ctx.Done() case ready again and again (Go picks
\* among the ready cases at random) eventually takes it.
Fairness ==
    /\ WF_vars(detectPodLanguages)
    /\ WF_vars(SendBatchStep)
    /\ WF_vars(DialWithRetry)
    /\ WF_vars(SendDataToUpdater /\ clientPc # "select")
    /\ SF_vars(SendDataToUpdater /\ OnCtxDone)
    /\ WF_vars(ScanInitial)
    /\ WF_vars(ScanReturn)
    /\ WF_vars(ReconcileReturn)

FairShutdown == Init /\ [][NextShutdown]_vars /\ Fairness

\* C2: once the root context is cancelled, the upstream client loop, the
\* pod scan loop and the reconciliation loop each eventually return.
C2_LoopsExitOnCancel ==
    ctxDone ~> (clientPc = "returned" /\ scanPc = "returned" /\ reconPc = "returned")

-----------------------------------------------------------------------------
(* Updater outage and recovery                                              *)

\* the detector in operation (the root context is not cancelled) while the
\* updater goes down and comes back
NextRecovery ==
    \/ ScanInitial
    \/ detectPodLanguages
    \/ SendDataToUpdater
    \/ SendBatchStep
    \/ DialWithRetry
    \/ UpdaterDown \/ UpdaterUp

\* Scheduling as in Fairness; the cache-sync ticker keeps firing and the
\* select takes it again and again; the updater, once down, comes back.
FairRecovery ==
    /\ Init /\ [][NextRecovery]_vars
    /\ WF_vars(detectPodLanguages)
    /\ WF_vars(SendBatchStep)
    /\ WF_vars(DialWithRetry)
    /\ WF_vars(SendDataToUpdater /\ clientPc # "select")
    /\ SF_vars(SendDataToUpdater /\ OnCacheSyncTick)
    /\ WF_vars(UpdaterUp)

Range(f) == {f[i] : i \in DOMAIN f}

\* every ContainerInfo that can enter the workload index: the results a
\* detection stores
AllContainerInfos ==
    { info \in UNION { UNION { { detectContainerLanguage(PodSpec(p),
                                    PodSpec(p).Containers[i], r) :
                                   r \in ProcSnapshots(PodSpec(p).Containers[i].Image) } :
                               i \in DOMAIN PodSpec(p).Containers } : p \in Pods } :
        ShouldCache(info) }

Delivered(info) == ~rpc.none /\ rpc.ok /\ info \in Range(rpc.items)

\* C3: a flush fails only if the updater was down at some moment of it (so
\* the first flush attempted after the updater is back succeeds), and while
\* the detector runs every container in the workload index is eventually
\* carried by a successful remote call.
C3_OutageRecovery ==
    /\ [](flush.result = "failed" => flush.sawDown)
    /\ \A info \in AllContainerInfos :
          (info \in GetAllActiveContainers(workloadCache)) ~> Delivered(info)

\* a cache-sync chunk is delivered on the retry after an outage broke the
\* connection
C3_Witness ==
    /\ ~rpc.none /\ rpc.ok /\ rpc.reason = "cached_workloads_sync"
    /\ flush.attempt = 2 /\ outages >= 1 /\ ~flush.sawDown

-----------------------------------------------------------------------------
(* Workload lifecycle                                                       *)

\* the detection side in operation while pods and workloads are deleted and
\* the informers deliver the delete events (the upstream client has not
\* started receiving: it sleeps 10 s first)
NextLifecycle ==
    \/ ScanInitial \/ ScanTick
    \/ detectPodLanguages
    \/ HandleEvent
    \/ DeletePod \/ DeleteWorkload

SpecLifecycle == Init /\ [][NextLifecycle]_vars

\* the detection side with the reconciliation sweep in place of the
\* informers: workloads are deleted, their pods stay listed, and delete
\* events are never delivered
NextSweep ==
    \/ ScanInitial \/ ScanTick
    \/ detectPodLanguages
    \/ ReconcileTick
    \/ DeleteWorkload

SpecSweep == Init /\ [][NextSweep]_vars

\* C4: once the informer's delete handler has run RemoveWorkload for a
\* workload, the workload has no entry in the workload index (so none of
\* its containers is in GetAllActiveContainers or in a later cache sync).
C4_RemovedStaysAbsent ==
    \A k \in removedByEvent : k \notin DOMAIN workloadCache

\* C5: a workload that was deleted from the cluster and has since seen a
\* complete reconciliation sweep has no entry in the workload index.
C5_SweptStaysAbsent ==
    \A w \in sweptAfterDelete : WorkloadKey(w.Namespace, w.Name) \notin DOMAIN workloadCache

-----------------------------------------------------------------------------
(* Batching                                                                 *)

\* the step in which the client receives an item from Queue
IsRecv == clientPc = "select" /\ Queue # <<>> /\ batch' = Append(batch, Head(Queue))

\* C6: when a received item brings the batch to QueueSize items, one flush
\* with reason queue_size_threshold_reached starts in the same step with
\* exactly those items; below QueueSize no flush starts; when that flush is
\* over the batch is empty again, so the next item starts a batch of length
\* 1; every remote call of that reason carries exactly QueueSize items; and
\* the batch holds fewer than QueueSize items whenever the loop is at its
\* select.
C6_FlushOnSize ==
    /\ [](clientPc = "select" => Len(batch) < QueueSize)
    /\ []((~rpc.none /\ rpc.reason = "queue_size_threshold_reached")
             => Len(rpc.items) = QueueSize)
    /\ [][IsRecv =>
            IF Len(batch) + 1 = QueueSize
            THEN /\ clientPc' = "after"
                 /\ flush'.reason = "queue_size_threshold_reached"
                 /\ flush'.items = batch' /\ Len(batch') = QueueSize
            ELSE /\ Len(batch') < QueueSize
                 /\ clientPc' = "select" /\ flush' = NoFlush]_vars
    /\ [][(flush.reason = "queue_size_threshold_reached" /\ flush' = NoFlush)
             => (batch' = <<>> /\ clientPc' = "select")]_vars

\* a size-triggered batch of QueueSize items is on the wire while the next
\* item waits in Queue
C6_Witness ==
    /\ ~rpc.none /\ rpc.reason = "queue_size_threshold_reached"
    /\ Len(rpc.items) = QueueSize /\ rpc.items = batch
    /\ Queue # <<>>

\* C7: no remote call carries a batch of length 0, whatever the reason.
C7_NoEmptyCall == ~rpc.none => Len(rpc.items) > 0

\* a one-item batch goes out on the shutdown flush
C7_Witness ==
    ~rpc.none /\ rpc.reason = "application_shutdown" /\ Len(rpc.items) = 1

\* C8: every ContainerInfo carried by a remote call has a supported
\* Language, whatever the flush reason.
C8_OnlySupportedSent ==
    ~rpc.none => \A i \in DOMAIN rpc.items : rpc.items[i].Language \in OtelSupportedLanguages

-----------------------------------------------------------------------------
(* Namespace policy                                                         *)

\* a detector constructed with any pair of namespace lists
InitNs ==
    /\ InitDetector
    /\ MonitoredNamespaces \in NsLists
    /\ IgnoredNamespaces \in NsLists
    /\ procCtx = IdleProcess

SpecNs == InitNs /\ [][ShouldMonitorCall]_vars

\* C9: the answer is true exactly when the monitored list is non-empty and
\* holds the namespace, or the monitored list is empty and the ignored list
\* is empty or does not hold it; with a non-empty monitored list the answer
\* is the same for every ignored list.
C9_ShouldMonitor ==
    nsResult.asked =>
        LET ns == nsResult.namespace
            M  == Range(MonitoredNamespaces)
            I  == Range(IgnoredNamespaces)
        IN /\ nsResult.result <=> \/ (MonitoredNamespaces # <<>> /\ ns \in M)
                                  \/ (MonitoredNamespaces = <<>> /\ (I = {} \/ ns \notin I))
           /\ MonitoredNamespaces # <<>> =>
                 \A ignored \in NsLists :
                    ShouldMonitorNamespace(MonitoredNamespaces, ignored, ns) = nsResult.result

\* both lists name the namespace and the allow-list wins
C9_Witness ==
    /\ nsResult.asked /\ nsResult.result
    /\ nsResult.namespace \in Range(MonitoredNamespaces)
    /\ nsResult.namespace \in Range(IgnoredNamespaces)

-----------------------------------------------------------------------------
(* Re-detection                                                             *)

\* C10: when a container of an unchanged pod is detected again after the
\* pod's processed key was cleared, the detection is a cache hit and gives
\* the (Language, Framework, Confidence) of the first detection.
C10_RedetectionFromCache ==
    \A k \in DOMAIN firstSeen :
        firstSeen[k].again => (firstSeen[k].hit /\ firstSeen[k].last = firstSeen[k].first)


-----------------------------------------------------------------------------
(* Direct calls of the orchestrator and of the two coordinators             *)

\* what the two stages can return for one process
Processes ==
    { pc \in [quick : ResultLists, deep : ResultLists] :
         Len(pc.quick) + Len(pc.deep) <= MaxResults }

\* one process, any of Processes, inspected by direct calls
InitDetect ==
    /\ InitDetector
    /\ updaterUp
    /\ MonitoredNamespaces = <<>>
    /\ IgnoredNamespaces = <<>>
    /\ procCtx \in Processes

NextDetect ==
    \/ DetectCall
    \/ DetectContainerCall
    \/ CacheHitCall
    \/ DetectLanguageForPodCall

SpecDetect == InitDetect /\ [][NextDetect]_vars

\* C11: every result the orchestrator returns, every ContainerInfo a
\* coordinator produces on a cache miss or a cache hit, and every ContainerInfo
\* stored in the image index, has Confidence low when its Language is Unknown.
C11_UnknownIsLow ==
    \A info \in Range(probe.out) \cup Range(cache) :
        info.Language = "Unknown" => info.Confidence = "low"

\* a cache hit returns an Unknown result
C11_Witness ==
    /\ probe.op = "hit"
    /\ probe.out[1].Language = "Unknown"

\* C13: after DetectLanguageForPod, every container that missed the image
\* index and has an empty container ID has a ContainerInfo with Language
\* Unknown and Confidence low among the results.
C13_EmptyIDYieldsUnknown ==
    probe.op = "DetectLanguageForPod" =>
        \A i \in probe.missed :
            probe.ids[i] = "" =>
                \E k \in DOMAIN probe.out :
                    /\ probe.out[k].ContainerName = PodSpec(probe.pod).Containers[i].Name
                    /\ probe.out[k].Language = "Unknown"
                    /\ probe.out[k].Confidence = "low"

\* the image-index keys for which the step's DetectLanguageForPod call made a
\* Set: those of the containers that missed the index and got a result
KeysSetByCall ==
    IF probe'.op # "DetectLanguageForPod" THEN {}
    ELSE LET pod == PodSpec(probe'.pod)
         IN { generateKey(pod.Containers[i].Image, containerEnvVars(pod.Containers[i])) :
                i \in { j \in probe'.missed :
                          \E k \in DOMAIN probe'.out :
                             probe'.out[k].ContainerName = pod.Containers[j].Name } }

\* C12: no step removes an image-index entry, and a step changes the value a
\* Get returns for a key only by a Set for that key.
C12_ImageIndexPersists ==
    [][\A key \in DOMAIN cache :
          /\ key \in DOMAIN cache'
          /\ cache'[key] # cache[key] => key \in KeysSetByCall]_vars

-----------------------------------------------------------------------------
(* The supervisor and the goroutines it starts                              *)

NextSupervisor ==
    \/ MainGo
    \/ Interrupt
    \/ MainSignal
    \/ MainCancel
    \/ MainWait
    \/ \E t \in Tasks : TaskStart(t)
    \/ \E t \in Tasks : TaskReturn(t)

SpecSupervisor == Init /\ [][NextSupervisor]_vars

\* C14: when main has declared shutdown complete, the pod scanner, the
\* informer task and the upstream client have all returned.
C14_ShutdownAfterTasks ==
    mainPc = "complete" =>
        \A t \in {"ScanPods", "AnalyzeWorkloads", "SendDataToUpdater"} :
            taskPc[t] = "returned"

-----------------------------------------------------------------------------
(* Flushes against an updater that goes down and is restarted               *)

NextFlush ==
    \/ NextDelivery
    \/ UpdaterRestart

SpecFlush == Init /\ [][NextFlush]_vars

\* C15: a SendBatch makes at most two Calls; the second is made only after
\* the first failed, RpcClient was set to nil and a dial succeeded; when the
\* second fails SendBatch ends without a further Call, nothing is put back on
\* Queue, and the event loop resumes with an empty batch (or returns, when the
\* flush was the shutdown flush).
C15_TwoCallsThenDrop ==
    [][/\ flush'.attempt <= 2
       /\ (flush.attempt = 1 /\ flush'.attempt = 2) =>
              (~rpc.none /\ ~rpc.ok /\ RpcClient' = "nil")
       /\ (rpc.none /\ ~rpc'.none /\ flush.attempt = 2) => RpcClient = "conn"
       /\ (flush.pc = "reply" /\ flush.attempt = 2 /\ ~rpc.ok /\ flush' # flush) =>
              (flush'.pc = "done" /\ flush'.result = "failed" /\ rpc' = NoCall
                 /\ Queue' = Queue /\ batch' = batch)
       /\ (flush.pc = "done" /\ flush.result = "failed" /\ clientPc' # clientPc) =>
              /\ Len(Queue') <= Len(Queue)
              /\ flush.reason = "application_shutdown" => clientPc' = "returned"
              /\ flush.reason \in {"queue_size_threshold_reached",
                                   "periodic_flush_interval"} =>
                     (clientPc' = "select" /\ batch' = <<>>)]_vars

\* the second Call of a flush has failed
C15_Witness ==
    /\ flush.pc = "done"
    /\ flush.attempt = 2
    /\ flush.result = "failed"
    /\ flush.reason = "periodic_flush_interval"

\* C16: BatchMutex is not held while SendBatch sleeps before a dial, dials,
\* or has a Call in progress.
C16_MutexNotHeldAcrossRpc ==
    ~(BatchMutexHeld /\ flush.pc \in {"sleep", "dial", "call", "reply"})

\* C17: main's DialWithRetry goroutine and a DialWithRetry inside SendBatch
\* are never in progress together, and no dial assigns RpcClient while it
\* holds a connection.
C17_SingleWriter ==
    [][/\ ~(dialPc # "done" /\ InSendBatch /\ flush.pc \in {"sleep", "dial"})
       /\ (dialPc = "dial" /\ dialPc' = "done" /\ ~ctxDone) => RpcClient # "conn"
       /\ (InSendBatch /\ flush.pc = "dial" /\ flush'.pc = "call") =>
              RpcClient # "conn"]_vars

\* C18: at most one detectPodLanguages goroutine per pod is in flight.
C18_OneDetectionPerPod ==
    \A t1, t2 \in BagToSet(tasks) :
        /\ CopiesIn(t1, tasks) = 1
        /\ t1.pod = t2.pod => t1 = t2

\* C19: no step removes the workload-index entry of a workload that exists in
\* the cluster and whose kind the sweep looks up: with lookups that can fail
\* for other reasons than not-found, a failed lookup leaves the entry alone.
C19_ApiErrorKeepsEntry ==
    [][\A k \in DOMAIN workloadCache :
          ( /\ workloadCache[k].WorkloadKind \in ReconciledKinds
            /\ [Namespace |-> workloadCache[k].Namespace,
                Name |-> workloadCache[k].WorkloadName,
                Kind |-> workloadCache[k].WorkloadKind] \in liveWorkloads' )
          => k \in DOMAIN workloadCache']_vars

-----------------------------------------------------------------------------
(* Reconciliation against a healthy API server, with a standalone pod       *)

NextStandalone ==
    \/ ScanInitial
    \/ ScanTick
    \/ detectPodLanguages
    \/ CreatePod
    \/ ReconcileHealthy

SpecStandalone == Init /\ [][NextStandalone]_vars

\* C20: with every API lookup answered, no step removes the workload-index
\* entry of a workload that exists in the cluster, whatever its kind.
C20_SweepRemovesOnlyGone ==
    [][\A k \in DOMAIN workloadCache :
          [Namespace |-> workloadCache[k].Namespace,
           Name |-> workloadCache[k].WorkloadName,
           Kind |-> workloadCache[k].WorkloadKind] \in liveWorkloads'
          => k \in DOMAIN workloadCache']_vars

-----------------------------------------------------------------------------
(* Delete events                                                            *)

\* C21: every workload of kind Deployment, DaemonSet, ReplicaSet or
\* StatefulSet that has been deleted from the cluster either has its delete
\* event waiting for its handler or has had its entry removed from the
\* workload index by the handler.
C21_DeleteEventEvicts ==
    \A w \in Workloads \ liveWorkloads :
        w.Kind \in {"Deployment", "DaemonSet", "ReplicaSet", "StatefulSet"} =>
            \/ w \in events
            \/ WorkloadKey(w.Namespace, w.Name) \in removedByEvent

-----------------------------------------------------------------------------
(* Detections that end without a result                                     *)

\* C22: a detectPodLanguages goroutine whose last container misses the image
\* index and gets a language conflict from the orchestrator stores and pushes
\* nothing for it and ends without putting the pod in the processed set, so
\* that the next scan tick detects the pod again.
C22_ConflictIsRetried ==
    [][\A t \in BagToSet(tasks) :
          LET pod == PodSpec(t.pod)
              container == pod.Containers[t.idx]
              info == detectContainerLanguage(pod, container, <<ErrConflict>>)
          IN ( /\ t.item = NoInfo
               /\ t.idx = Len(pod.Containers)
               /\ <<ErrConflict>> \in ProcSnapshots(container.Image)
               /\ CacheGet(cache, container.Image, containerEnvVars(container)) = NoInfo
               /\ ~ShouldCache(info)
               /\ tasks' = tasks (-) SetToBag({t})
               /\ UNCHANGED <<cache, workloadCache, Queue>> )
             => PodKey(pod) \notin processedPods']_vars

\* C23: when a detectPodLanguages goroutine has dealt with a container that
\* missed the image index, whatever the PID search found (no PID included),
\* the image index holds an entry for the container's fingerprint, so that
\* the next detection of that fingerprint is a cache hit.
C23_NoPidsIsCached ==
    [][\A t \in BagToSet(tasks) :
          LET container == PodSpec(t.pod).Containers[t.idx]
          IN ( /\ t.item = NoInfo
               /\ <<>> \in ProcSnapshots(container.Image)
               /\ CacheGet(cache, container.Image, containerEnvVars(container)) = NoInfo
               /\ CopiesIn(t, tasks') < CopiesIn(t, tasks) )
             => CacheGet(cache', container.Image, containerEnvVars(container)) # NoInfo]_vars

-----------------------------------------------------------------------------
(* Cache hits                                                               *)

\* C24: a DetectLanguageForPod call leaves the image-index entry of every
\* fingerprint that was present before the call as it was: a hit is stamped
\* on a clone, and a Get after the call returns the value last Set.
C24_HitWorksOnClone ==
    [][probe'.op = "DetectLanguageForPod" =>
          \A i \in DOMAIN PodSpec(probe'.pod).Containers :
             LET container == PodSpec(probe'.pod).Containers[i]
                 stored == CacheGet(cache, container.Image, containerEnvVars(container))
             IN stored # NoInfo =>
                   CacheGet(cache', container.Image, containerEnvVars(container)) = stored]_vars

-----------------------------------------------------------------------------
(* The orchestrator's outcomes                                              *)

\* C25: a direct call of Detect returns (Unknown, low) if and only if the
\* QuickScan results and the DeepScan results of the process are both empty.
C25_UnknownIffBothEmpty ==
    probe.op = "Detect" =>
        (probe.out[1] = NoLanguageDetected
            <=> (procCtx.quick = <<>> /\ procCtx.deep = <<>>))

-----------------------------------------------------------------------------
(* The choice among a container's PIDs                                      *)

\* direct calls of EBPFDetector.detectContainerLanguage over every list of
\* per-PID orchestrator outcomes
SpecPids == Init /\ [][DetectContainerPidsCall]_vars

\* C27: the ContainerInfo the coordinator builds from the per-PID outcomes
\* carries the first high-confidence outcome that names a language, if there
\* is one, otherwise the first outcome that names a language, otherwise
\* Unknown/low.
C27_FirstHighWins ==
    probe.op = "detectContainerLanguage(pids)" =>
        LET rs == probe.results
            named == { k \in DOMAIN rs : rs[k].Language \notin {"error", "Unknown"} }
            highs == { k \in named : rs[k].Confidence = "high" }
            First(S) == CHOOSE k \in S : \A j \in S : k <= j
            expected == IF highs # {} THEN rs[First(highs)]
                        ELSE IF named # {} THEN rs[First(named)]
                             ELSE UnknownLow
        IN Triple(probe.out[1]) = Triple(expected)

\* a PID for which the orchestrator names no language precedes one with a
\* high-confidence result, which the coordinator reports
C27_Witness ==
    /\ probe.op = "detectContainerLanguage(pids)"
    /\ Len(probe.results) = 2
    /\ probe.results[1].Language \in {"error", "Unknown"}
    /\ probe.results[2].Confidence = "high"
    /\ probe.out[1].Language = probe.results[2].Language
    /\ probe.out[1].Confidence = "high"

-----------------------------------------------------------------------------
(* From Queue to a flush                                                    *)

\* the reasons of the flushes the event loop starts
LoopReasons == {"queue_size_threshold_reached", "periodic_flush_interval",
                "application_shutdown"}

\* C28: the batch changes only by appending the item just received from
\* Queue or by being emptied when a flush of exactly its items is over; a
\* flush of the event loop starts with the whole batch, in the order
\* received, keeps its items until it ends, and every Call of it carries
\* them in that order; the batch does not change while a flush is in
\* progress; and the client returns only with an empty batch or after the
\* shutdown flush of exactly its items.
C28_ExactlyOneFlush ==
    /\ []((~rpc.none /\ rpc.reason \in LoopReasons)
             => (rpc.items = flush.items /\ flush.items = batch))
    /\ [][/\ batch' # batch =>
               \/ /\ clientPc = "select" /\ Queue # <<>>
                  /\ batch' = Append(batch, Head(Queue))
                  /\ Queue' = Tail(Queue)
               \/ /\ batch' = <<>>
                  /\ flush.pc = "done" /\ flush.items = batch
                  /\ flush.reason \in LoopReasons
          /\ (flush = NoFlush /\ flush' # NoFlush /\ flush'.reason \in LoopReasons) =>
                (flush'.items = batch' /\ Len(batch') > 0)
          /\ (flush.reason \in LoopReasons /\ flush' # NoFlush) =>
                flush'.items = flush.items
          /\ (clientPc # "returned" /\ clientPc' = "returned") =>
                \/ batch = <<>>
                \/ /\ flush.reason = "application_shutdown"
                   /\ flush.pc = "done" /\ flush.items = batch]_vars

\* a size-triggered flush of two different items, in the order received, is
\* on the wire in its second Call
C28_Witness ==
    /\ ~rpc.none /\ rpc.reason = "queue_size_threshold_reached"
    /\ flush.attempt = 2
    /\ Len(batch) = 2 /\ batch[1] # batch[2]
    /\ rpc.items = batch

-----------------------------------------------------------------------------
(* Workloads of different kinds with one name                               *)

\* the detection side and the informers, with a DaemonSet that is created
\* under the name of an existing Deployment
NextNamesake ==
    \/ ScanInitial
    \/ detectPodLanguages
    \/ HandleEvent
    \/ CreateWorkload
    \/ DeleteWorkload

SpecNamesake == Init /\ [][NextNamesake]_vars

\* C29: the step that handles the delete event of a workload leaves in place
\* the workload-index entry of every workload of another kind that has the
\* same namespace and name and still exists.
C29_DeleteSparesOtherKinds ==
    [][\A e \in events \ events' :
          \A k \in DOMAIN workloadCache :
             ( /\ k = WorkloadKey(e.Namespace, e.Name)
               /\ workloadCache[k].WorkloadKind # e.Kind
               /\ [Namespace |-> workloadCache[k].Namespace,
                   Name |-> workloadCache[k].WorkloadName,
                   Kind |-> workloadCache[k].WorkloadKind] \in liveWorkloads )
             => k \in DOMAIN workloadCache']_vars

-----------------------------------------------------------------------------
(* The namespace policy in the scan loop                                    *)

\* the pod scan and its detections under every setting of the two lists
NextPolicy ==
    \/ ScanInitial
    \/ detectPodLanguages

SpecPolicy == InitNs /\ [][NextPolicy]_vars

\* C30: every pod with a detection in flight, every ContainerInfo in either
\* cache index and every ContainerInfo on the queue belongs to a namespace
\* for which ShouldMonitorNamespace answers true.
C30_UnmonitoredNeverDetected ==
    LET Monitored(ns) ==
            ShouldMonitorNamespace(MonitoredNamespaces, IgnoredNamespaces, ns)
    IN /\ \A t \in BagToSet(tasks) : Monitored(PodSpec(t.pod).Namespace)
       /\ \A key \in DOMAIN cache : Monitored(cache[key].Namespace)
       /\ \A info \in GetAllActiveContainers(workloadCache) : Monitored(info.Namespace)
       /\ \A i \in DOMAIN Queue : Monitored(Queue[i].Namespace)

=============================================================================
